---- MODULE Spec2Model ----
(***************************************************************************)
(* Model of backend_merged.py: a portfolio backend that keeps three JSON   *)
(* documents (profile, projects, config) as files and stores uploads under *)
(* generated names.  Every request handler is one atomic action.           *)
(***************************************************************************)
EXTENDS Integers, Sequences, FiniteSets, TLC

(***************************************************************************)
(* Bounds of the model.                                                    *)
(***************************************************************************)
\* number of uuid4() calls a behaviour may make (each add and each upload
\* draws one identifier)
MaxUuid == 3

(***************************************************************************)
(* Python values.  A value is a record [type, v]:                          *)
(*   none  v = <<>>                                                        *)
(*   str   v = the sequence of its characters (one-character strings; a    *)
(*             longer token stands for a fixed run of characters)          *)
(*   list  v = the sequence of its elements                                *)
(*   dict  v = a function from key (a string) to value                     *)
(* An empty dict and an empty list differ by their type field.             *)
(***************************************************************************)
None == [type |-> "none", v |-> <<>>]

Str(s) == [type |-> "str", v |-> s]

List(s) == [type |-> "list", v |-> s]

Dict(f) == [type |-> "dict", v |-> f]

EmptyDict == Dict(<<>>)

EmptyList == List(<<>>)

\* Python ==, compared by type first so that values of different types are
\* never compared componentwise
PyEq(a, b) == a.type = b.type /\ a.v = b.v

\* dict.get(key, default)
DictGet(d, key, default) == IF key \in DOMAIN d.v THEN d.v[key] ELSE default

\* d[key] = value
DictSet(d, key, value) ==
    Dict([k \in DOMAIN d.v \cup {key} |-> IF k = key THEN value ELSE d.v[k]])

(***************************************************************************)
(* Strings as character sequences.                                         *)
(***************************************************************************)
\* str.lower() on one character
LowerChar(c) ==
    CASE c = "A" -> "a" [] c = "C" -> "c" [] c = "D" -> "d" [] c = "F" -> "f"
      [] c = "P" -> "p" [] c = "V" -> "v" [] c = "X" -> "x"
      [] OTHER -> c

\* str.lower()
Lower(s) == [i \in 1..Len(s) |-> LowerChar(s[i])]

\* str.endswith(suffix)
EndsWith(s, suffix) ==
    /\ Len(suffix) <= Len(s)
    /\ SubSeq(s, Len(s) - Len(suffix) + 1, Len(s)) = suffix

RECURSIVE SplitFrom(_, _, _, _)
\* scan s from position i; cur is the part being collected, parts the
\* finished parts
SplitFrom(s, sep, i, acc) ==
    IF i > Len(s) THEN Append(acc.parts, acc.cur)
    ELSE IF s[i] = sep
         THEN SplitFrom(s, sep, i + 1,
                        [parts |-> Append(acc.parts, acc.cur), cur |-> <<>>])
         ELSE SplitFrom(s, sep, i + 1,
                        [parts |-> acc.parts, cur |-> Append(acc.cur, s[i])])

\* str.split(sep) for a one-character separator: always at least one part
Split(s, sep) == SplitFrom(s, sep, 1, [parts |-> <<>>, cur |-> <<>>])

(***************************************************************************)
(* JSON text.  A file's text is a sequence of lexemes [t, s]: punctuation, *)
(* null, whitespace, a string literal (t = "str", s = its characters), or  *)
(* a lexeme that is no JSON at all.                                        *)
(***************************************************************************)
Tok(t) == [t |-> t, s |-> <<>>]

StrTok(s) == [t |-> "str", s |-> s]

WS == Tok("ws")

\* the order in which the keys of a dict are written
KeyOrder ==
    << "name", "email", "linkedin", "github", "tagline", "about",
       "photo_path", "resume_path",
       "id", "title", "description", "techStack", "highlights",
       "githubUrl", "demoUrl", "imagePath",
       "skills", "certifications", "offerings", "contact_info",
       "python", "nick" >>

KeysOf(d) == SelectSeq(KeyOrder, LAMBDA k : k \in DOMAIN d.v)

RECURSIVE Dumps(_), DumpItems(_, _), DumpMembers(_, _, _)
\* json.dump(data, f, indent=4, ensure_ascii=False)
Dumps(x) ==
    CASE x.type = "none" -> << Tok("null") >>
      [] x.type = "str"  -> << StrTok(x.v) >>
      [] x.type = "list" ->
            IF Len(x.v) = 0 THEN << Tok("["), Tok("]") >>
            ELSE << Tok("["), WS >> \o DumpItems(x.v, 1) \o << WS, Tok("]") >>
      [] x.type = "dict" ->
            IF DOMAIN x.v = {} THEN << Tok("{"), Tok("}") >>
            ELSE << Tok("{"), WS >> \o DumpMembers(x, KeysOf(x), 1)
                     \o << WS, Tok("}") >>

DumpItems(items, i) ==
    IF i = Len(items) THEN Dumps(items[i])
    ELSE Dumps(items[i]) \o << Tok(","), WS >> \o DumpItems(items, i + 1)

DumpMembers(d, keys, i) ==
    LET member == << StrTok(<< keys[i] >>), Tok(":"), WS >> \o Dumps(d.v[keys[i]])
    IN  IF i = Len(keys) THEN member
        ELSE member \o << Tok(","), WS >> \o DumpMembers(d, keys, i + 1)

\* result of a parse step: ok, the value, the position after it
ParseFail == [ok |-> FALSE, val |-> None, pos |-> 0]

ParseOk(val, pos) == [ok |-> TRUE, val |-> val, pos |-> pos]

RECURSIVE SkipWs(_, _)
SkipWs(t, i) == IF i <= Len(t) /\ t[i].t = "ws" THEN SkipWs(t, i + 1) ELSE i

IsTok(t, i, kind) == i <= Len(t) /\ t[i].t = kind

RECURSIVE ParseValue(_, _), ParseItems(_, _, _), ParseMembers(_, _, _)
ParseValue(t, i0) ==
    LET i == SkipWs(t, i0)
    IN  IF i > Len(t) THEN ParseFail
        ELSE CASE t[i].t = "null" -> ParseOk(None, i + 1)
               [] t[i].t = "str"  -> ParseOk(Str(t[i].s), i + 1)
               [] t[i].t = "["    ->
                    LET j == SkipWs(t, i + 1)
                    IN  IF IsTok(t, j, "]") THEN ParseOk(EmptyList, j + 1)
                        ELSE ParseItems(t, j, <<>>)
               [] t[i].t = "{"    ->
                    LET j == SkipWs(t, i + 1)
                    IN  IF IsTok(t, j, "}") THEN ParseOk(EmptyDict, j + 1)
                        ELSE ParseMembers(t, j, <<>>)
               [] OTHER -> ParseFail

ParseItems(t, i, acc) ==
    LET r == ParseValue(t, i)
    IN  IF ~r.ok THEN ParseFail
        ELSE LET j == SkipWs(t, r.pos)
             IN  IF IsTok(t, j, ",")
                 THEN ParseItems(t, j + 1, Append(acc, r.val))
                 ELSE IF IsTok(t, j, "]")
                      THEN ParseOk(List(Append(acc, r.val)), j + 1)
                      ELSE ParseFail

\* a key is a string literal of one token; a repeated key keeps the last
\* value
ParseMembers(t, i, acc) ==
    LET k == SkipWs(t, i)
    IN  IF ~(IsTok(t, k, "str") /\ Len(t[k].s) = 1) THEN ParseFail
        ELSE LET c == SkipWs(t, k + 1)
             IN  IF ~IsTok(t, c, ":") THEN ParseFail
                 ELSE LET r == ParseValue(t, c + 1)
                      IN  IF ~r.ok THEN ParseFail
                          ELSE LET j == SkipWs(t, r.pos)
                                   acc2 == (t[k].s[1] :> r.val) @@ acc
                               IN  IF IsTok(t, j, ",")
                                   THEN ParseMembers(t, j + 1, acc2)
                                   ELSE IF IsTok(t, j, "}")
                                        THEN ParseOk(Dict(acc2), j + 1)
                                        ELSE ParseFail

\* json.loads(content): one value and nothing after it, otherwise it raises
Loads(t) ==
    LET r == ParseValue(t, 1)
    IN  IF r.ok /\ SkipWs(t, r.pos) > Len(t) THEN r ELSE ParseFail

RECURSIVE StripLeft(_), StripRight(_)
StripLeft(t) == IF Len(t) > 0 /\ t[1].t = "ws" THEN StripLeft(Tail(t)) ELSE t

StripRight(t) ==
    IF Len(t) > 0 /\ t[Len(t)].t = "ws"
    THEN StripRight(SubSeq(t, 1, Len(t) - 1)) ELSE t

\* str.strip()
Strip(t) == StripRight(StripLeft(t))

(***************************************************************************)
(* Configuration (section 1 of the source).                                *)
(***************************************************************************)
PROFILE_JSON == << "db", "/", "profile.json" >>

PROJECTS_JSON == << "db", "/", "projects.json" >>

CONFIG_JSON == << "db", "/", "config.json" >>

PROFILE_DIR == "profile"

PROJECTS_DIR == "projects"

DbPaths == { PROFILE_JSON, PROJECTS_JSON, CONFIG_JSON }

UploadDirs == { PROFILE_DIR, PROJECTS_DIR }

(***************************************************************************)
(* State.                                                                  *)
(***************************************************************************)
\* db[path]      the JSON file at path: [exists, content]
\* uploads[dir]  the stored files of an upload folder: name -> bytes
\* uuid_n        the number of identifiers uuid4() has produced so far
\* last          the request handled last: [op, ...its arguments]
\* resp          its outcome: [status, body]; status 500 is an unhandled
\*               exception
\* threads[w]    the request a worker of the thread pool is inside of:
\*               idle, loaded (its document is read, not yet saved) or done
VARIABLES db, uploads, uuid_n, last, resp, threads

vars == << db, uploads, uuid_n, last, resp, threads >>

\* a file that does not exist
Missing == [exists |-> FALSE, content |-> <<>>]

FileOf(content) == [exists |-> TRUE, content |-> content]

(***************************************************************************)
(* Section 2 of the source: JSON and file helpers.                         *)
(***************************************************************************)
ProfileDefault ==
    Dict([k \in {"name", "email", "linkedin", "github", "tagline", "about",
                 "photo_path", "resume_path"} |-> Str(<<>>)])

ConfigDefault ==
    Dict([k \in {"skills", "certifications", "offerings", "contact_info"} |->
            IF k \in {"skills", "contact_info"} THEN EmptyDict ELSE EmptyList])

\* a load_json whose missing-file branch returns the empty object for every
\* kind, as its except branch does
MissingDefault_EmptyObject(path) == EmptyDict

\* load_json, the branch taken when the file does not exist
MissingDefault(path) ==
    IF EndsWith(path, << "profile.json" >>) THEN ProfileDefault
    ELSE IF EndsWith(path, << "projects.json" >>) THEN EmptyList
    ELSE IF EndsWith(path, << "config.json" >>) THEN ConfigDefault
    ELSE EmptyDict

\* load_json, the branch taken when the file is empty after strip()
EmptyFileDefault(path) ==
    IF EndsWith(path, << "profile.json" >>) THEN ProfileDefault
    ELSE IF EndsWith(path, << "projects.json" >>) THEN EmptyList
    ELSE IF EndsWith(path, << "config.json" >>) THEN ConfigDefault
    ELSE EmptyDict

\* load_json, the except branch: what is returned when reading or parsing
\* raised
ExceptResult(path) == EmptyDict

\* load_json(path) on the file f
LoadFile(path, f) ==
    IF ~f.exists THEN MissingDefault(path)
    ELSE LET content == Strip(f.content)
         IN  IF Len(content) = 0 THEN EmptyFileDefault(path)
             ELSE LET r == Loads(content)
                  IN  IF r.ok THEN r.val ELSE ExceptResult(path)

load_json(path) == LoadFile(path, db[path])

\* a save that opens the file for appending instead of truncating it
save_json_Append(path, data) == [db EXCEPT ![path] = FileOf(@.content \o Dumps(data))]

\* save_json(path, data): the file system after the write
save_json(path, data) == [db EXCEPT ![path] = FileOf(Dumps(data))]

\* uuid4() rendered as text: the next identifier, never one produced before
Uuid4Str == << ToString(uuid_n + 1) >>

\* a stored name that is the name the client sent
UploadName_FromClient(filename, uuid) == filename

\* the name save_upload_file gives the stored file
UploadName(filename, uuid) ==
    LET parts == Split(filename, ".")
        extension == IF Len(parts) > 1 THEN parts[Len(parts)] ELSE <<>>
    IN  IF Len(extension) > 0 THEN uuid \o << "." >> \o extension ELSE uuid

\* open(filepath, "wb") and copy: creates the file or replaces its bytes
WriteFile(dir, name, data) ==
    [n \in DOMAIN dir \cup {name} |-> IF n = name THEN data ELSE dir[n]]

\* save_upload_file(file, folder): the stored name and the upload folders
\* after the write
save_upload_file(file, folder) ==
    LET filename == UploadName(file.filename, Uuid4Str)
    IN  [filename |-> filename,
         uploads  |-> [uploads EXCEPT
                         ![folder] = WriteFile(uploads[folder], filename, file.data)]]

\* raise HTTPException(status_code, detail)
HTTPException(status_code, detail) == [status |-> status_code, body |-> [detail |-> detail]]

\* an exception no handler catches (AttributeError, TypeError)
Unhandled == [status |-> 500, body |-> [detail |-> "Internal Server Error"]]

Ok(body) == [status |-> 200, body |-> body]

(***************************************************************************)
(* Requests the model sends.                                               *)
(***************************************************************************)
\* uploaded files: cv.Pdf, r.docx, and a name that ends in pdf but has no dot
UploadFiles ==
    { [filename |-> << "c", "v", ".", "P", "d", "f" >>, data |-> "bytes1"],
      [filename |-> << "r", ".", "d", "o", "c", "x" >>, data |-> "bytes2"],
      [filename |-> << "p", "d", "f" >>, data |-> "bytes1"] }

S(c) == Str(<< c >>)

\* bodies of POST /api/profile/update
ProfileInputs ==
    { Dict([name |-> S("X"), email |-> None]),
      Dict([email |-> S("e"), photo_path |-> S("p"), resume_path |-> None,
            nick |-> S("n")]),
      Dict([resume_path |-> S("r")]) }

\* bodies of POST /api/projects/add: an empty one, and one that supplies
\* an id of its own
ProjectInputs ==
    { EmptyDict,
      Dict([id |-> S("1"), title |-> S("B"), techStack |-> List(<< S("py") >>),
            imagePath |-> S("i")]) }

\* project ids a client may name: every identifier the server can have
\* produced, and one it never produces
ProjectIds == { S(ToString(n)) : n \in 1..MaxUuid } \cup { S("nope") }

\* bodies of POST /api/config/update
ConfigInputs ==
    { EmptyDict,
      Dict([skills |-> Dict([python |-> S("x")])]),
      Dict([skills |-> EmptyDict, certifications |-> List(<< S("c") >>),
            offerings |-> EmptyList, contact_info |-> Dict([email |-> S("e")])]) }

(***************************************************************************)
(* Initial state: the folders exist and hold no upload; each JSON file is  *)
(* missing, blank, or holds text that is not JSON (a document cut short).  *)
(***************************************************************************)
BlankText == << WS >>

CorruptText == << Tok("{"), WS, StrTok(<< "name" >>), Tok(":") >>

InitFiles == { Missing, FileOf(BlankText), FileOf(CorruptText) }

\* the requests the thread pool runs at the same time
Workers == { 1, 2 }

\* a worker that has taken no request
Idle == [pc |-> "idle"]

Init ==
    /\ db \in [DbPaths -> InitFiles]
    /\ uploads = [d \in UploadDirs |-> << >>]
    /\ uuid_n = 0
    /\ last = [op |-> "start"]
    /\ resp = Ok([ok |-> TRUE])
    /\ threads = [w \in Workers |-> Idle]

(***************************************************************************)
(* Section 3 of the source: /api/profile                                   *)
(***************************************************************************)
\* a read that writes the document it loaded back to the store
get_profile_CreatesStore ==
    /\ UNCHANGED threads
    /\ last' = [op |-> "get_profile"]
    /\ resp' = Ok(load_json(PROFILE_JSON))
    /\ db' = save_json(PROFILE_JSON, load_json(PROFILE_JSON))
    /\ UNCHANGED << uploads, uuid_n >>

get_profile ==
    /\ UNCHANGED threads
    /\ last' = [op |-> "get_profile"]
    /\ resp' = Ok(load_json(PROFILE_JSON))
    /\ UNCHANGED << db, uploads, uuid_n >>

\* an update loop without the "is not None" test
MergeProfile_NullOverwrites(current, data) ==
    Dict([k \in DOMAIN current.v \cup DOMAIN data.v |->
            IF k \in DOMAIN data.v THEN data.v[k] ELSE current.v[k]])

\* the loop of update_profile: keys whose value is not None overwrite
MergeProfile(current, data) ==
    Dict([k \in DOMAIN current.v \cup { j \in DOMAIN data.v : data.v[j] # None } |->
            IF k \in DOMAIN data.v /\ data.v[k] # None THEN data.v[k]
            ELSE current.v[k]])

update_profile ==
    \E data \in ProfileInputs :
        LET current == load_json(PROFILE_JSON)
        IN  /\ UNCHANGED threads
            /\ last' = [op |-> "update_profile", data |-> data]
            /\ IF current.type = "dict"
               THEN LET merged == MergeProfile(current, data)
                    IN  /\ db' = save_json(PROFILE_JSON, merged)
                        /\ resp' = Ok([ok |-> TRUE, profile |-> merged])
               ELSE \* item assignment on a list with a str index raises
                    /\ db' = db
                    /\ resp' = Unhandled
            /\ UNCHANGED << uploads, uuid_n >>

\* a public path that leaves out the category of the upload
PublicPath_NoCategory(category, filename) == Str(<< "/uploads/" >> \o filename)

PublicPath(category, filename) == Str(<< "/uploads/", category, "/" >> \o filename)

\* an upload that starts from a fresh default profile instead of the stored
\* one
StoreProfileUpload_FreshProfile(file, field) ==
    LET saved == save_upload_file(file, PROFILE_DIR)
        profile == ProfileDefault
        path == PublicPath("profile", saved.filename)
    IN  /\ uploads' = saved.uploads
        /\ uuid_n' = uuid_n + 1
        /\ db' = save_json(PROFILE_JSON, DictSet(profile, field, path))
        /\ resp' = Ok([ok |-> TRUE, path |-> path])

\* the part common to upload_photo and upload_resume after the file name
\* check: store the file, set the field, save
StoreProfileUpload(file, field) ==
    LET saved == save_upload_file(file, PROFILE_DIR)
        profile == load_json(PROFILE_JSON)
        path == PublicPath("profile", saved.filename)
    IN  /\ uploads' = saved.uploads
        /\ uuid_n' = uuid_n + 1
        /\ IF profile.type = "dict"
           THEN /\ db' = save_json(PROFILE_JSON, DictSet(profile, field, path))
                /\ resp' = Ok([ok |-> TRUE, path |-> path])
           ELSE /\ db' = db
                /\ resp' = Unhandled

upload_photo ==
    \E file \in UploadFiles :
        /\ uuid_n < MaxUuid
        /\ UNCHANGED threads
        /\ last' = [op |-> "upload_photo", file |-> file]
        /\ StoreProfileUpload(file, "photo_path")

\* a guard that forgets lower()
NotPdf_CaseSensitive(filename) ==
    Len(filename) = 0 \/ ~EndsWith(filename, << ".", "p", "d", "f" >>)

\* the guard of upload_resume: the name is empty or does not end in .pdf
NotPdf(filename) ==
    Len(filename) = 0 \/ ~EndsWith(Lower(filename), << ".", "p", "d", "f" >>)

upload_resume ==
    \E file \in UploadFiles :
        /\ UNCHANGED threads
        /\ last' = [op |-> "upload_resume", file |-> file]
        /\ IF NotPdf(file.filename)
           THEN /\ resp' = HTTPException(400, "Resume must be a PDF")
                /\ UNCHANGED << db, uploads, uuid_n >>
           ELSE /\ uuid_n < MaxUuid
                /\ StoreProfileUpload(file, "resume_path")

(***************************************************************************)
(* Section 4 of the source: /api/projects                                  *)
(***************************************************************************)
get_projects ==
    /\ UNCHANGED threads
    /\ last' = [op |-> "get_projects"]
    /\ resp' = Ok(load_json(PROJECTS_JSON))
    /\ UNCHANGED << db, uploads, uuid_n >>

\* a new_project literal that lets the id of the input win
NewProject_ClientId(data, id) ==
    Dict([id          |-> DictGet(data, "id", Str(id)),
          title       |-> DictGet(data, "title", Str(<<>>)),
          description |-> DictGet(data, "description", Str(<<>>)),
          techStack   |-> DictGet(data, "techStack", EmptyList),
          highlights  |-> DictGet(data, "highlights", EmptyList),
          githubUrl   |-> DictGet(data, "githubUrl", Str(<<>>)),
          demoUrl     |-> DictGet(data, "demoUrl", Str(<<>>)),
          imagePath   |-> DictGet(data, "imagePath", None)])

\* the new_project literal of add_project
NewProject(data, id) ==
    Dict([id          |-> Str(id),
          title       |-> DictGet(data, "title", Str(<<>>)),
          description |-> DictGet(data, "description", Str(<<>>)),
          techStack   |-> DictGet(data, "techStack", EmptyList),
          highlights  |-> DictGet(data, "highlights", EmptyList),
          githubUrl   |-> DictGet(data, "githubUrl", Str(<<>>)),
          demoUrl     |-> DictGet(data, "demoUrl", Str(<<>>)),
          imagePath   |-> DictGet(data, "imagePath", None)])

\* an add that puts the new project at the head of the list
add_project_Prepend ==
    \E data \in ProjectInputs, projects \in { load_json(PROJECTS_JSON) } :
        LET new_project == NewProject(data, Uuid4Str)
        IN  /\ uuid_n < MaxUuid
            /\ UNCHANGED threads
            /\ last' = [op |-> "add_project", data |-> data]
            /\ uuid_n' = uuid_n + 1
            /\ IF projects.type = "list"
               THEN /\ db' = save_json(PROJECTS_JSON,
                                       List(<< new_project >> \o projects.v))
                    /\ resp' = Ok([ok |-> TRUE, project |-> new_project])
               ELSE /\ db' = db
                    /\ resp' = Unhandled
            /\ UNCHANGED uploads

add_project ==
    \E data \in ProjectInputs, projects \in { load_json(PROJECTS_JSON) } :
        LET new_project == NewProject(data, Uuid4Str)
        IN  /\ uuid_n < MaxUuid
            /\ UNCHANGED threads
            /\ last' = [op |-> "add_project", data |-> data]
            /\ uuid_n' = uuid_n + 1
            /\ IF projects.type = "list"
               THEN /\ db' = save_json(PROJECTS_JSON,
                                       List(Append(projects.v, new_project)))
                    /\ resp' = Ok([ok |-> TRUE, project |-> new_project])
               ELSE \* a dict has no append: AttributeError
                    /\ db' = db
                    /\ resp' = Unhandled
            /\ UNCHANGED uploads

\* the process dies inside save_json: open(path, "w") has emptied the file
\* and only the first n lexemes of the text have reached it
CutPoints(text) == { 0, 1, Len(text) \div 2, Len(text) - 1 }

interrupted_save(path, data, n) ==
    [db EXCEPT ![path] = FileOf(SubSeq(Dumps(data), 1, n))]

NoResponse == [status |-> 0, body |-> [detail |-> "connection lost"]]

\* an add whose save is interrupted
add_project_interrupted ==
    \E data \in ProjectInputs, projects \in { load_json(PROJECTS_JSON) } :
        LET new_project == NewProject(data, Uuid4Str)
            document == List(Append(projects.v, new_project))
        IN  /\ uuid_n < MaxUuid
            /\ projects.type = "list"
            /\ \E n \in CutPoints(Dumps(document)) :
                   /\ UNCHANGED threads
                   /\ last' = [op |-> "add_project_interrupted", data |-> data, n |-> n]
                   /\ db' = interrupted_save(PROJECTS_JSON, document, n)
            /\ uuid_n' = uuid_n + 1
            /\ resp' = NoResponse
            /\ UNCHANGED uploads

\* what "for p in projects" visits: the elements of a list, the keys of a
\* dict
Iterate(x) ==
    IF x.type = "list" THEN x.v
    ELSE LET keys == KeysOf(x) IN [i \in 1..Len(keys) |-> S(keys[i])]

\* p.get("id") raises unless p is a dict
AllDicts(items) == \A i \in 1..Len(items) : items[i].type = "dict"

\* [p for p in projects if p.get("id") != project_id]
WithoutId(items, project_id) ==
    SelectSeq(items, LAMBDA p : DictGet(p, "id", None) # project_id)

\* a delete that saves the filtered list before it looks at the lengths
delete_project_SaveFirst ==
    \E projects \in { Iterate(load_json(PROJECTS_JSON)) }, project_id \in ProjectIds :
        LET new_projects == WithoutId(projects, project_id)
        IN  /\ UNCHANGED threads
            /\ last' = [op |-> "delete_project", project_id |-> project_id]
            /\ IF ~AllDicts(projects)
               THEN /\ db' = db
                    /\ resp' = Unhandled
               ELSE /\ db' = save_json(PROJECTS_JSON, List(new_projects))
                    /\ resp' = IF Len(projects) = Len(new_projects)
                               THEN HTTPException(404, "Project not found")
                               ELSE Ok([ok |-> TRUE])
            /\ UNCHANGED << uploads, uuid_n >>

\* a delete that also removes the image files of the projects it removes
delete_project_RemovesImages ==
    \E projects \in { Iterate(load_json(PROJECTS_JSON)) }, project_id \in ProjectIds :
        LET new_projects == WithoutId(projects, project_id)
            gone == { n \in DOMAIN uploads[PROJECTS_DIR] :
                        \E i \in 1..Len(projects) :
                            /\ DictGet(projects[i], "id", None) = project_id
                            /\ DictGet(projects[i], "imagePath", None)
                                 = PublicPath("projects", n) }
        IN  /\ UNCHANGED threads
            /\ last' = [op |-> "delete_project", project_id |-> project_id]
            /\ UNCHANGED uuid_n
            /\ IF ~AllDicts(projects)
               THEN /\ db' = db
                    /\ resp' = Unhandled
                    /\ UNCHANGED uploads
               ELSE IF Len(projects) = Len(new_projects)
               THEN /\ db' = db
                    /\ resp' = HTTPException(404, "Project not found")
                    /\ UNCHANGED uploads
               ELSE /\ db' = save_json(PROJECTS_JSON, List(new_projects))
                    /\ resp' = Ok([ok |-> TRUE])
                    /\ uploads' = [uploads EXCEPT ![PROJECTS_DIR] =
                                     [n \in DOMAIN @ \ gone |-> @[n]]]

delete_project ==
    \E projects \in { Iterate(load_json(PROJECTS_JSON)) }, project_id \in ProjectIds :
        LET new_projects == WithoutId(projects, project_id)
        IN  /\ UNCHANGED threads
            /\ last' = [op |-> "delete_project", project_id |-> project_id]
            /\ IF ~AllDicts(projects)
               THEN /\ db' = db
                    /\ resp' = Unhandled
               ELSE IF Len(projects) = Len(new_projects)
               THEN /\ db' = db
                    /\ resp' = HTTPException(404, "Project not found")
               ELSE /\ db' = save_json(PROJECTS_JSON, List(new_projects))
                    /\ resp' = Ok([ok |-> TRUE])
            /\ UNCHANGED << uploads, uuid_n >>

\* a search that stops at the head of the list as soon as any project matches
FirstMatch_HeadOfList(items, project_id) ==
    LET hits == { i \in 1..Len(items) : DictGet(items[i], "id", None) = project_id }
    IN  IF hits = {} THEN 0 ELSE 1

\* index of the first project whose id is project_id, 0 if there is none
FirstMatch(items, project_id) ==
    LET hits == { i \in 1..Len(items) : DictGet(items[i], "id", None) = project_id }
    IN  IF hits = {} THEN 0 ELSE CHOOSE i \in hits : \A j \in hits : i <= j

\* an attach that looks for the project before it stores the file
upload_project_image_CheckFirst ==
    \E projects \in { Iterate(load_json(PROJECTS_JSON)) },
       project_id \in ProjectIds, file \in UploadFiles :
        LET saved == save_upload_file(file, PROJECTS_DIR)
            path == PublicPath("projects", saved.filename)
            m == FirstMatch(projects, project_id)
        IN  /\ uuid_n < MaxUuid
            /\ UNCHANGED threads
            /\ last' = [op |-> "upload_project_image",
                        project_id |-> project_id, file |-> file]
            /\ IF ~AllDicts(projects)
               THEN /\ db' = db
                    /\ resp' = Unhandled
                    /\ UNCHANGED << uploads, uuid_n >>
               ELSE IF m = 0
               THEN /\ db' = db
                    /\ resp' = HTTPException(404, "Project not found")
                    /\ UNCHANGED << uploads, uuid_n >>
               ELSE /\ uploads' = saved.uploads
                    /\ uuid_n' = uuid_n + 1
                    /\ db' = save_json(PROJECTS_JSON,
                             List([projects EXCEPT ![m] = DictSet(@, "imagePath", path)]))
                    /\ resp' = Ok([ok |-> TRUE, updated |-> TRUE, path |-> path])

upload_project_image ==
    \E projects \in { Iterate(load_json(PROJECTS_JSON)) },
       project_id \in ProjectIds, file \in UploadFiles :
        LET saved == save_upload_file(file, PROJECTS_DIR)
            path == PublicPath("projects", saved.filename)
            m == FirstMatch(projects, project_id)
        IN  /\ uuid_n < MaxUuid
            /\ UNCHANGED threads
            /\ last' = [op |-> "upload_project_image",
                        project_id |-> project_id, file |-> file]
            /\ uploads' = saved.uploads
            /\ uuid_n' = uuid_n + 1
            /\ IF ~AllDicts(projects)
               THEN /\ db' = db
                    /\ resp' = Unhandled
               ELSE IF m = 0
               THEN /\ db' = db
                    /\ resp' = HTTPException(404, "Project not found")
               ELSE /\ db' = save_json(PROJECTS_JSON,
                             List([projects EXCEPT ![m] = DictSet(@, "imagePath", path)]))
                    /\ resp' = Ok([ok |-> TRUE, updated |-> TRUE, path |-> path])

(***************************************************************************)
(* Section 5 of the source: /api/config                                    *)
(***************************************************************************)
get_config ==
    /\ UNCHANGED threads
    /\ last' = [op |-> "get_config"]
    /\ resp' = Ok(load_json(CONFIG_JSON))
    /\ UNCHANGED << db, uploads, uuid_n >>

\* a replace that keeps the stored fields the new document does not name
update_config_Merge ==
    \E data \in ConfigInputs :
        LET current == load_json(CONFIG_JSON)
            merged == Dict([k \in DOMAIN current.v \cup DOMAIN data.v |->
                              IF k \in DOMAIN data.v THEN data.v[k] ELSE current.v[k]])
        IN  /\ UNCHANGED threads
            /\ last' = [op |-> "update_config", data |-> data]
            /\ db' = save_json(CONFIG_JSON, merged)
            /\ resp' = Ok([ok |-> TRUE])
            /\ UNCHANGED << uploads, uuid_n >>

update_config ==
    \E data \in ConfigInputs :
        /\ UNCHANGED threads
        /\ last' = [op |-> "update_config", data |-> data]
        /\ db' = save_json(CONFIG_JSON, data)
        /\ resp' = Ok([ok |-> TRUE])
        /\ UNCHANGED << uploads, uuid_n >>

(***************************************************************************)
(* The server handles one request after another.  The three services share *)
(* no state but the identifier generator, so each is also specified alone, *)
(* with the other documents missing.  Spec, the composition of all ten     *)
(* handlers, has the product of the services' state spaces; the properties *)
(* of one service are stated over that service's specification.            *)
(***************************************************************************)
Next ==
    \/ get_profile
    \/ update_profile
    \/ upload_photo
    \/ upload_resume
    \/ get_projects
    \/ add_project
    \/ delete_project
    \/ upload_project_image
    \/ get_config
    \/ update_config

Spec == Init /\ [][Next]_vars

OnlyBroken(path) == \A q \in DbPaths \ {path} : db[q] = Missing

InitProfile == Init /\ OnlyBroken(PROFILE_JSON)

NextProfile ==
    \/ get_profile
    \/ update_profile
    \/ upload_photo
    \/ upload_resume

SpecProfile == InitProfile /\ [][NextProfile]_vars

InitProjects == Init /\ OnlyBroken(PROJECTS_JSON)

NextProjects ==
    \/ get_projects
    \/ add_project
    \/ delete_project
    \/ upload_project_image

SpecProjects == InitProjects /\ [][NextProjects]_vars

\* the upload store with every operation that calls it, and the operations
\* that add and remove the projects the stored images belong to
InitUploads == Init /\ OnlyBroken(PROJECTS_JSON)

NextUploads ==
    \/ upload_photo
    \/ upload_resume
    \/ add_project
    \/ delete_project
    \/ upload_project_image

SpecUploads == InitUploads /\ [][NextUploads]_vars

\* the projects service on a server that can die while it saves
NextInterrupted ==
    \/ get_projects
    \/ add_project
    \/ add_project_interrupted
    \/ delete_project
    \/ upload_project_image

SpecInterrupted == InitProjects /\ [][NextInterrupted]_vars

\* the document store alone: every read, and the writes that need no upload
NextDocs ==
    \/ get_profile
    \/ get_projects
    \/ get_config
    \/ update_profile
    \/ update_config

SpecDocs == Init /\ [][NextDocs]_vars

(***************************************************************************)
(* save_json and load_json on their own: a document is saved and loaded    *)
(* back, or the loaded document is saved again.                            *)
(***************************************************************************)
\* documents a store may be given: the empty object and the empty list for
\* every kind, and documents of the kind with null values, empty strings,
\* nested lists and nested objects
Documents(path) ==
    { EmptyDict, EmptyList } \cup
    ( CASE path = PROFILE_JSON ->
               { ProfileDefault,
                 Dict([email |-> S("e"), photo_path |-> None, nick |-> Str(<< >>)]) }
        [] path = PROJECTS_JSON ->
               { List(<< NewProject(EmptyDict, << "1" >>) >>),
                 List(<< NewProject(Dict([title |-> S("B"),
                                          techStack |-> List(<< S("py"), None >>)]),
                                    << "1" >>),
                         NewProject(EmptyDict, << "2" >>) >>) }
        [] path = CONFIG_JSON ->
               { ConfigDefault } \cup ConfigInputs )

save_then_load ==
    \E path \in DbPaths :
        \E data \in Documents(path) :
            /\ UNCHANGED threads
            /\ last' = [op |-> "save_json", path |-> path, data |-> data]
            /\ db' = save_json(path, data)
            /\ resp' = Ok(LoadFile(path, db'[path]))
            /\ UNCHANGED << uploads, uuid_n >>

load_then_save ==
    \E path \in DbPaths :
        \E data \in { load_json(path) } :
            /\ UNCHANGED threads
            /\ last' = [op |-> "load_json", path |-> path]
            /\ db' = save_json(path, data)
            /\ resp' = Ok(data)
            /\ UNCHANGED << uploads, uuid_n >>

NextRoundTrip ==
    \/ save_then_load
    \/ load_then_save

SpecRoundTrip == Init /\ [][NextRoundTrip]_vars

(***************************************************************************)
(* Two requests in the thread pool. add_project, delete_project and        *)
(* update_profile are plain def handlers, which the framework runs in      *)
(* worker threads: each is split where another thread can run, between     *)
(* its load_json and the rest of the handler.                              *)
(***************************************************************************)
\* the state two adds, one after the other, leave behind
InitRace ==
    \E d1, d2 \in ProjectInputs :
        /\ db = [q \in DbPaths |->
                   IF q = PROJECTS_JSON
                   THEN FileOf(Dumps(List(<< NewProject(d1, << "1" >>),
                                             NewProject(d2, << "2" >>) >>)))
                   ELSE Missing]
        /\ uploads = [d \in UploadDirs |-> << >>]
        /\ uuid_n = 2
        /\ last = [op |-> "add_project", data |-> d2]
        /\ resp = Ok([ok |-> TRUE, project |-> NewProject(d2, << "2" >>)])
        /\ threads = [w \in Workers |-> Idle]

\* the handler has called load_json(path) and holds the result
Begin(w, op, arg, path) ==
    threads' = [threads EXCEPT ![w] =
                  [pc |-> "loaded", op |-> op, arg |-> arg, path |-> path,
                   snap |-> load_json(path)]]

begin_add_project ==
    \E w \in Workers, data \in ProjectInputs :
        /\ threads[w].pc = "idle"
        /\ Begin(w, "add_project", data, PROJECTS_JSON)
        /\ UNCHANGED << db, uploads, uuid_n, last, resp >>

begin_delete_project ==
    \E w \in Workers, project_id \in ProjectIds :
        /\ threads[w].pc = "idle"
        /\ Begin(w, "delete_project", project_id, PROJECTS_JSON)
        /\ UNCHANGED << db, uploads, uuid_n, last, resp >>

begin_update_profile ==
    \E w \in Workers, data \in ProfileInputs :
        /\ threads[w].pc = "idle"
        /\ Begin(w, "update_profile", data, PROFILE_JSON)
        /\ UNCHANGED << db, uploads, uuid_n, last, resp >>

\* a handler that reads the document again when it is about to save
Loaded_AtSave(w) == load_json(threads[w].path)

\* the document the handler works on: the one it loaded
Loaded(w) == threads[w].snap

\* the handler returns: saved tells whether it called save_json, wrote is
\* the document it saved, pending the workers that had loaded and not yet
\* finished at that moment
Finish(w, response, saved, wrote) ==
    /\ threads' = [threads EXCEPT ![w] =
                     [pc |-> "done", op |-> @.op, arg |-> @.arg, path |-> @.path,
                      snap |-> @.snap, resp |-> response, saved |-> saved,
                      wrote |-> wrote,
                      pending |-> { o \in Workers \ {w} : threads[o].pc = "loaded" }]]
    /\ resp' = response

finish_add_project ==
    \E w \in Workers :
        /\ threads[w].pc = "loaded"
        /\ threads[w].op = "add_project"
        /\ uuid_n < MaxUuid
        /\ \E projects \in { Loaded(w) } :
             LET new_project == NewProject(threads[w].arg, Uuid4Str)
                 document == List(Append(projects.v, new_project))
             IN  /\ last' = [op |-> "add_project", data |-> threads[w].arg]
                 /\ uuid_n' = uuid_n + 1
                 /\ IF projects.type = "list"
                    THEN /\ db' = save_json(PROJECTS_JSON, document)
                         /\ Finish(w, Ok([ok |-> TRUE, project |-> new_project]),
                                   TRUE, document)
                    ELSE /\ db' = db
                         /\ Finish(w, Unhandled, FALSE, None)
                 /\ UNCHANGED uploads

finish_delete_project ==
    \E w \in Workers :
        /\ threads[w].pc = "loaded"
        /\ threads[w].op = "delete_project"
        /\ \E projects \in { Iterate(Loaded(w)) } :
             LET new_projects == WithoutId(projects, threads[w].arg)
             IN  /\ last' = [op |-> "delete_project", project_id |-> threads[w].arg]
                 /\ IF ~AllDicts(projects)
                    THEN /\ db' = db
                         /\ Finish(w, Unhandled, FALSE, None)
                    ELSE IF Len(projects) = Len(new_projects)
                    THEN /\ db' = db
                         /\ Finish(w, HTTPException(404, "Project not found"),
                                   FALSE, None)
                    ELSE /\ db' = save_json(PROJECTS_JSON, List(new_projects))
                         /\ Finish(w, Ok([ok |-> TRUE]), TRUE, List(new_projects))
                 /\ UNCHANGED << uploads, uuid_n >>

finish_update_profile ==
    \E w \in Workers :
        /\ threads[w].pc = "loaded"
        /\ threads[w].op = "update_profile"
        /\ \E current \in { Loaded(w) } :
             /\ last' = [op |-> "update_profile", data |-> threads[w].arg]
             /\ IF current.type = "dict"
                THEN LET merged == MergeProfile(current, threads[w].arg)
                     IN  /\ db' = save_json(PROFILE_JSON, merged)
                         /\ Finish(w, Ok([ok |-> TRUE, profile |-> merged]),
                                   TRUE, merged)
                ELSE /\ db' = db
                     /\ Finish(w, Unhandled, FALSE, None)
             /\ UNCHANGED << uploads, uuid_n >>

NextRace ==
    \/ begin_add_project
    \/ finish_add_project
    \/ begin_delete_project
    \/ finish_delete_project
    \/ begin_update_profile
    \/ finish_update_profile

SpecRace == InitRace /\ [][NextRace]_vars

(***************************************************************************)
(* Vocabulary of the properties.                                           *)
(***************************************************************************)
\* the read operation of each document
GetOp(path) ==
    CASE path = PROFILE_JSON -> "get_profile"
      [] path = PROJECTS_JSON -> "get_projects"
      [] path = CONFIG_JSON -> "get_config"

\* the file exists, is not blank, and its text is not JSON
Unparseable(f) ==
    f.exists /\ Len(Strip(f.content)) > 0 /\ ~Loads(Strip(f.content)).ok

\* the default the documentation gives for each document
DocumentedDefault(path) ==
    CASE path = PROFILE_JSON ->
            Dict([name |-> Str(<<>>), email |-> Str(<<>>), linkedin |-> Str(<<>>),
                  github |-> Str(<<>>), tagline |-> Str(<<>>), about |-> Str(<<>>),
                  photo_path |-> Str(<<>>), resume_path |-> Str(<<>>)])
      [] path = PROJECTS_JSON -> List(<<>>)
      [] path = CONFIG_JSON ->
            Dict([skills |-> Dict(<<>>), certifications |-> List(<<>>),
                  offerings |-> List(<<>>), contact_info |-> Dict(<<>>)])

\* the statuses each operation declares
DeclaredStatuses(op) ==
    CASE op = "upload_resume" -> {200, 400}
      [] op \in {"delete_project", "upload_project_image"} -> {200, 404}
      [] OTHER -> {200}

\* the projects a list request would return from file f (none when the load
\* result is no list)
StoredProjects(f) ==
    LET x == LoadFile(PROJECTS_JSON, f) IN IF x.type = "list" THEN x.v ELSE <<>>

IdSeq(items) == [i \in 1..Len(items) |-> items[i].v.id]

Distinct(seq) == \A i, j \in 1..Len(seq) : i # j => seq[i] # seq[j]

HasId(items, project_id) == \E i \in 1..Len(items) : items[i].v.id = project_id

RemoveAt(seq, i) == SubSeq(seq, 1, i - 1) \o SubSeq(seq, i + 1, Len(seq))

\* the position of an identifier in the order of generation
Age(id) == CHOOSE n \in 1..MaxUuid : S(ToString(n)) = id

\* the profile a get request would return from file f
StoredProfile(f) == LoadFile(PROFILE_JSON, f)

\* a field of the stored profile; Absent when the document has no such key
Absent == [type |-> "absent", v |-> <<>>]

ProfileField(f, key) == DictGet(StoredProfile(f), key, Absent)

NewFiles(folder) == DOMAIN uploads'[folder] \ DOMAIN uploads[folder]

\* the files a folder held before the step are still there, with their bytes
KeepsFiles(folder) ==
    \A n \in DOMAIN uploads[folder] :
        n \in DOMAIN uploads'[folder] /\ uploads'[folder][n] = uploads[folder][n]

(***************************************************************************)
(* C1  load on a corrupt store returns the same default as load on a       *)
(* missing store, for every document kind, and does not raise.             *)
(* The code returns an empty object for every kind instead.                *)
(***************************************************************************)
C1_CorruptLoadsDefault ==
    \A path \in DbPaths :
        (last.op = GetOp(path) /\ Unparseable(db[path])) =>
            /\ resp.status = 200
            /\ PyEq(resp.body, LoadFile(path, Missing))

(***************************************************************************)
(* C2  Whatever state the stores are in (missing, empty, unparseable),     *)
(* every operation ends in success or in a client error it declares.       *)
(* add on an unparseable projects store ends in an unhandled exception.    *)
(***************************************************************************)
C2_NoUnhandledFailure ==
    last.op # "start" => resp.status \in DeclaredStatuses(last.op)

(***************************************************************************)
(* C3  load on a missing store returns exactly the documented default of   *)
(* the document kind.                                                      *)
(***************************************************************************)
C3_MissingLoadsDefault ==
    \A path \in DbPaths :
        (last.op = GetOp(path) /\ ~db[path].exists) =>
            /\ resp.status = 200
            /\ PyEq(resp.body, DocumentedDefault(path))

C3_Witness ==
    /\ last.op = "get_config"
    /\ ~db[CONFIG_JSON].exists
    /\ resp.body.type = "dict"
    /\ DOMAIN resp.body.v = {"skills", "certifications", "offerings", "contact_info"}

(***************************************************************************)
(* C4  The ids of the stored projects are pairwise distinct; add assigns   *)
(* an id that no stored project has, whatever id the input carries; no     *)
(* operation changes the id of a project that stays in the list.           *)
(***************************************************************************)
C4_Step ==
    \A old \in { IdSeq(StoredProjects(db[PROJECTS_JSON])) },
       new \in { IdSeq(StoredProjects(db'[PROJECTS_JSON])) } :
        /\ Distinct(new)
        /\ IF last'.op = "add_project" /\ resp'.status = 200
           THEN /\ \A i \in 1..Len(old) : old[i] # resp'.body.project.v.id
                /\ new = Append(old, resp'.body.project.v.id)
           ELSE IF last'.op = "delete_project"
           THEN new = SelectSeq(old, LAMBDA id : id # last'.project_id)
           ELSE new = old

C4_UniqueIds == [][C4_Step]_vars

\* the input carried the id of a stored project, and the new project got
\* another one
C4_Witness ==
    LET items == StoredProjects(db[PROJECTS_JSON])
    IN  /\ last.op = "add_project"
        /\ resp.status = 200
        /\ "id" \in DOMAIN last.data.v
        /\ Len(items) >= 2
        /\ items[1].v.id = last.data.v.id
        /\ resp.body.project.v.id # last.data.v.id

(***************************************************************************)
(* C5  Profile update merges: a key of the input with a non-null value is  *)
(* overwritten, a key with a null value and a key not in the input keep    *)
(* what was stored; the merged document is returned and persisted, so the  *)
(* next get returns it.                                                    *)
(***************************************************************************)
C5_Step ==
    last'.op = "update_profile" =>
        LET stored == StoredProfile(db[PROFILE_JSON])
            data == last'.data.v
            merged == resp'.body.profile
            written == { k \in DOMAIN data : data[k] # None }
        IN  /\ resp'.status = 200
            /\ merged.type = "dict"
            /\ DOMAIN merged.v = DOMAIN stored.v \cup written
            /\ \A k \in written : merged.v[k] = data[k]
            /\ \A k \in DOMAIN stored.v \ written : merged.v[k] = stored.v[k]
            /\ PyEq(StoredProfile(db'[PROFILE_JSON]), merged)

C5_UpdateMerges == [][C5_Step]_vars

\* a null email left the email set by an earlier update in place, next to a
\* name that was overwritten
C5_Witness ==
    /\ last.op = "update_profile"
    /\ "email" \in DOMAIN last.data.v
    /\ last.data.v.email = None
    /\ last.data.v.name = S("X")
    /\ "email" \in DOMAIN resp.body.profile.v
    /\ resp.body.profile.v.email = S("e")
    /\ resp.body.profile.v.name = S("X")
    /\ PyEq(StoredProfile(db[PROFILE_JSON]), resp.body.profile)

(***************************************************************************)
(* C6  photo_path and resume_path are changed only by the upload           *)
(* operations: a step that changes photo_path is an uploadPhoto, a step    *)
(* that changes resume_path is an uploadResume.                            *)
(* Refuted: a profile update whose input carries photo_path changes it.    *)
(***************************************************************************)
PhotoPathChanges ==
    ProfileField(db'[PROFILE_JSON], "photo_path") # ProfileField(db[PROFILE_JSON], "photo_path")

ResumePathChanges ==
    ProfileField(db'[PROFILE_JSON], "resume_path") # ProfileField(db[PROFILE_JSON], "resume_path")

C6_Original_Step ==
    /\ PhotoPathChanges => last'.op = "upload_photo"
    /\ ResumePathChanges => last'.op = "upload_resume"

C6_OnlyUploadsSetPaths == [][C6_Original_Step]_vars

\* the update names the key with a value that is not null
UpdateSets(key) ==
    /\ last'.op = "update_profile"
    /\ key \in DOMAIN last'.data.v
    /\ last'.data.v[key] # None

(***************************************************************************)
(* C6 as amended: a step that changes photo_path is an uploadPhoto or a    *)
(* profile update whose input carries a non-null photo_path; a step that   *)
(* changes resume_path is an uploadResume or a profile update whose input  *)
(* carries a non-null resume_path.                                         *)
(***************************************************************************)
C6_Amended_Step ==
    /\ PhotoPathChanges => (last'.op = "upload_photo" \/ UpdateSets("photo_path"))
    /\ ResumePathChanges => (last'.op = "upload_resume" \/ UpdateSets("resume_path"))

C6_PathsSetByUploadOrExplicitUpdate == [][C6_Amended_Step]_vars

\* an update replaced the photo path an upload had registered, while a resume
\* upload is registered too
C6_Witness ==
    /\ last.op = "update_profile"
    /\ "photo_path" \in DOMAIN last.data.v
    /\ ProfileField(db[PROFILE_JSON], "photo_path") = S("p")
    /\ ProfileField(db[PROFILE_JSON], "resume_path") \notin {Absent, Str(<<>>)}
    /\ Cardinality(DOMAIN uploads[PROFILE_DIR]) >= 2

(***************************************************************************)
(* C7  The stored list keeps insertion order: add appends at the end, a    *)
(* successful delete removes exactly the project with the id and keeps the *)
(* others in their order, list returns the stored order; so the list       *)
(* always holds the surviving projects in the order they were added.       *)
(***************************************************************************)
C7_Step ==
    \A old \in { StoredProjects(db[PROJECTS_JSON]) },
       new \in { StoredProjects(db'[PROJECTS_JSON]) } :
        /\ (last'.op = "add_project" /\ resp'.status = 200) =>
                new = Append(old, resp'.body.project)
        /\ (last'.op = "delete_project" /\ resp'.status = 200) =>
                \E i \in 1..Len(old) :
                    /\ old[i].v.id = last'.project_id
                    /\ new = RemoveAt(old, i)
        /\ (last'.op = "get_projects" /\ resp'.body.type = "list") =>
                resp'.body.v = old /\ new = old
        /\ \A i, j \in 1..Len(new) : i < j => Age(new[i].v.id) < Age(new[j].v.id)

C7_InsertionOrder == [][C7_Step]_vars

\* the middle one of three projects was deleted; the first and the third
\* remain, in that order
C7_Witness ==
    LET items == StoredProjects(db[PROJECTS_JSON])
    IN  /\ last.op = "delete_project"
        /\ resp.status = 200
        /\ last.project_id = S("2")
        /\ IdSeq(items) = << S("1"), S("3") >>

(***************************************************************************)
(* C8  delete with an id that matches no project reports not-found and     *)
(* changes nothing: no document is written (a missing store stays          *)
(* missing) and no file changes.                                           *)
(***************************************************************************)
C8_Step ==
    ( /\ last'.op = "delete_project"
      /\ ~HasId(StoredProjects(db[PROJECTS_JSON]), last'.project_id) ) =>
        /\ resp'.status = 404
        /\ db' = db
        /\ uploads' = uploads

C8_DeleteUnknownChangesNothing == [][C8_Step]_vars

C8_Witness ==
    /\ last.op = "delete_project"
    /\ resp.status = 404
    /\ ~db[PROJECTS_JSON].exists

(***************************************************************************)
(* C9  attachImage with an id that matches no project stores the file and  *)
(* then fails: exactly one new file exists under the projects category,    *)
(* the operation reports not-found, and the stored list is unchanged.      *)
(***************************************************************************)
C9_Step ==
    ( /\ last'.op = "upload_project_image"
      /\ ~HasId(StoredProjects(db[PROJECTS_JSON]), last'.project_id) ) =>
        /\ resp'.status = 404
        /\ db' = db
        /\ Cardinality(NewFiles(PROJECTS_DIR)) = 1
        /\ \A n \in NewFiles(PROJECTS_DIR) :
                uploads'[PROJECTS_DIR][n] = last'.file.data
        /\ KeepsFiles(PROJECTS_DIR)
        /\ uploads'[PROFILE_DIR] = uploads[PROFILE_DIR]

C9_AttachUnknownLeavesOrphan == [][C9_Step]_vars

\* the list holds a project, the id named another, and the file is there
C9_Witness ==
    /\ last.op = "upload_project_image"
    /\ resp.status = 404
    /\ Len(StoredProjects(db[PROJECTS_JSON])) >= 1
    /\ Cardinality(DOMAIN uploads[PROJECTS_DIR]) >= 1

(***************************************************************************)
(* C10  uploadResume rejects with a client error every file whose name     *)
(* does not end in .pdf in some letter case, before anything is stored;    *)
(* a name that does is accepted, one file is created, and resume_path is   *)
(* its public path.                                                        *)
(***************************************************************************)
EndsInPdfAnyCase(name) ==
    /\ Len(name) >= 4
    /\ name[Len(name) - 3] = "."
    /\ name[Len(name) - 2] \in {"p", "P"}
    /\ name[Len(name) - 1] \in {"d", "D"}
    /\ name[Len(name)] \in {"f", "F"}

C10_Step ==
    last'.op = "upload_resume" =>
        IF EndsInPdfAnyCase(last'.file.filename)
        THEN /\ resp'.status = 200
             /\ Cardinality(NewFiles(PROFILE_DIR)) = 1
             /\ KeepsFiles(PROFILE_DIR)
             /\ \A n \in NewFiles(PROFILE_DIR) :
                    /\ uploads'[PROFILE_DIR][n] = last'.file.data
                    /\ ProfileField(db'[PROFILE_JSON], "resume_path")
                         = Str(<< "/uploads/", "profile", "/" >> \o n)
        ELSE /\ resp'.status = 400
             /\ db' = db
             /\ uploads' = uploads

C10_ResumeMustBePdf == [][C10_Step]_vars

\* a name ending in pdf without the dot was rejected after cv.Pdf had been
\* accepted
C10_Witness ==
    /\ last.op = "upload_resume"
    /\ resp.status = 400
    /\ last.file.filename = << "p", "d", "f" >>
    /\ \E n \in DOMAIN uploads[PROFILE_DIR] :
            /\ EndsWith(n, << ".", "P", "d", "f" >>)
            /\ ProfileField(db[PROFILE_JSON], "resume_path")
                 = Str(<< "/uploads/", "profile", "/" >> \o n)

(***************************************************************************)
(* C16  An attach whose id matches a stored project stores one new file,   *)
(* sets the imagePath of that project to "/uploads/projects/<name of the   *)
(* new file>", returns that path, and leaves every other field of that     *)
(* project, every other project, the order of the list and the other       *)
(* documents as they were.                                                 *)
(***************************************************************************)
C16_Step ==
    \A old \in { StoredProjects(db[PROJECTS_JSON]) },
       new \in { StoredProjects(db'[PROJECTS_JSON]) } :
        ( /\ last'.op = "upload_project_image"
          /\ HasId(old, last'.project_id) ) =>
            /\ resp'.status = 200
            /\ Cardinality(NewFiles(PROJECTS_DIR)) = 1
            /\ \A n \in NewFiles(PROJECTS_DIR) :
                   resp'.body.path = Str(<< "/uploads/", "projects", "/" >> \o n)
            /\ Len(new) = Len(old)
            /\ \A i \in 1..Len(old) :
                   IF old[i].v.id = last'.project_id
                   THEN new[i] = DictSet(old[i], "imagePath", resp'.body.path)
                   ELSE new[i] = old[i]
            /\ db'[PROFILE_JSON] = db[PROFILE_JSON]
            /\ db'[CONFIG_JSON] = db[CONFIG_JSON]

C16_AttachSetsOnlyImagePath == [][C16_Step]_vars

\* an image was attached to the second of two projects: the first one still
\* has no image, the second one names the file that was stored
C16_Witness ==
    /\ last.op = "upload_project_image"
    /\ resp.status = 200
    /\ \E items \in { StoredProjects(db[PROJECTS_JSON]) } :
            /\ Len(items) >= 2
            /\ items[2].v.id = last.project_id
            /\ items[2].v.imagePath = resp.body.path
            /\ items[1].v.imagePath = None
            /\ \E n \in DOMAIN uploads[PROJECTS_DIR] :
                   resp.body.path = Str(<< "/uploads/", "projects", "/" >> \o n)

(***************************************************************************)
(* C17  A photo upload accepts every filename, stores one new file with    *)
(* the uploaded bytes in the profile folder, sets photo_path to            *)
(* "/uploads/profile/<name of the new file>", returns that path and leaves *)
(* every other field of the stored profile, and every other file, as it    *)
(* was.                                                                    *)
(***************************************************************************)
C17_Step ==
    last'.op = "upload_photo" =>
        \A old \in { StoredProfile(db[PROFILE_JSON]) },
           new \in { StoredProfile(db'[PROFILE_JSON]) } :
            /\ resp'.status = 200
            /\ Cardinality(NewFiles(PROFILE_DIR)) = 1
            /\ KeepsFiles(PROFILE_DIR)
            /\ uploads'[PROJECTS_DIR] = uploads[PROJECTS_DIR]
            /\ \A n \in NewFiles(PROFILE_DIR) :
                   /\ uploads'[PROFILE_DIR][n] = last'.file.data
                   /\ resp'.body.path = Str(<< "/uploads/", "profile", "/" >> \o n)
            /\ new.type = "dict"
            /\ DOMAIN new.v = DOMAIN old.v \cup { "photo_path" }
            /\ new.v.photo_path = resp'.body.path
            /\ \A k \in DOMAIN old.v \ { "photo_path" } : new.v[k] = old.v[k]

C17_PhotoUploadSetsOnlyPhotoPath == [][C17_Step]_vars

\* a photo named r.docx was accepted on a profile that already had a name
\* and a resume: both are still there and photo_path names the stored file
C17_Witness ==
    /\ last.op = "upload_photo"
    /\ resp.status = 200
    /\ last.file.filename = << "r", ".", "d", "o", "c", "x" >>
    /\ ProfileField(db[PROFILE_JSON], "name") = S("X")
    /\ ProfileField(db[PROFILE_JSON], "resume_path") \notin { Absent, None, Str(<< >>) }
    /\ \E n \in DOMAIN uploads[PROFILE_DIR] :
            /\ EndsWith(n, << ".", "d", "o", "c", "x" >>)
            /\ uploads[PROFILE_DIR][n] = last.file.data
            /\ ProfileField(db[PROFILE_JSON], "photo_path")
                 = Str(<< "/uploads/", "profile", "/" >> \o n)

(***************************************************************************)
(* C13  A config replace stores exactly the document it was given: the     *)
(* next get returns that document and nothing of the previous config; a    *)
(* replace with the empty object is followed by a get of the empty object. *)
(***************************************************************************)
C13_Step ==
    /\ last'.op = "update_config" =>
          /\ resp'.status = 200
          /\ PyEq(LoadFile(CONFIG_JSON, db'[CONFIG_JSON]), last'.data)
    /\ last'.op = "get_config" =>
          /\ resp'.status = 200
          /\ PyEq(resp'.body, LoadFile(CONFIG_JSON, db[CONFIG_JSON]))
    /\ (last.op = "update_config" /\ last'.op = "get_config") =>
          PyEq(resp'.body, last.data)
    /\ last'.op \notin { "update_config", "start" } =>
          db'[CONFIG_JSON] = db[CONFIG_JSON]

C13_ReplaceIsFullReplace == [][C13_Step]_vars

\* the empty object was stored and read back as the empty object, not as
\* the default config
C13_Witness ==
    /\ last.op = "get_config"
    /\ db[CONFIG_JSON] = FileOf(Dumps(EmptyDict))
    /\ PyEq(resp.body, EmptyDict)
    /\ ~PyEq(resp.body, ConfigDefault)

(***************************************************************************)
(* C19  The reads (profile get, projects list, config get) change no       *)
(* document and no file: a store that is missing before the read is        *)
(* missing after it, and reading again returns the same value.             *)
(***************************************************************************)
ReadOps == { GetOp(path) : path \in DbPaths }

C19_Step ==
    last'.op \in ReadOps =>
        /\ db' = db
        /\ uploads' = uploads
        /\ uuid_n' = uuid_n
        /\ resp'.status = 200
        /\ \A path \in DbPaths :
               last'.op = GetOp(path) =>
                   PyEq(resp'.body, LoadFile(path, db'[path]))
        /\ last.op = last'.op => resp' = resp

C19_ReadsChangeNothing == [][C19_Step]_vars

\* the profile was read while its store was missing and another store had
\* been written: the read returned the default and the store is still missing
C19_Witness ==
    /\ last.op = "get_profile"
    /\ ~db[PROFILE_JSON].exists
    /\ db[CONFIG_JSON] = FileOf(Dumps(EmptyDict))
    /\ PyEq(resp.body, ProfileDefault)

(***************************************************************************)
(* C14  A load straight after a save returns the saved document, for       *)
(* every document including the empty object and the empty list; saving    *)
(* the document loaded from a store that a save wrote leaves the store     *)
(* as it is.                                                               *)
(***************************************************************************)
C14_Step ==
    /\ last'.op = "save_json" =>
          /\ resp'.status = 200
          /\ PyEq(resp'.body, last'.data)
    /\ ( /\ last'.op = "load_json"
         /\ last.op \in { "save_json", "load_json" }
         /\ last.path = last'.path ) =>
          db' = db

C14_SaveLoadRoundTrip == [][C14_Step]_vars

\* the empty list was saved as the profile over an earlier save and loaded
\* back as the empty list; a project list with a null inside a nested list
\* is stored too
C14_Witness ==
    /\ last.op = "save_json"
    /\ last.path = PROFILE_JSON
    /\ PyEq(last.data, EmptyList)
    /\ PyEq(resp.body, EmptyList)
    /\ \E items \in { LoadFile(PROJECTS_JSON, db[PROJECTS_JSON]) } :
            /\ items.type = "list"
            /\ Len(items.v) = 2
            /\ items.v[1].v.techStack = List(<< S("py"), None >>)

(***************************************************************************)
(* C11  Every upload that reaches the upload store (a photo, a resume      *)
(* ending in .pdf, an image for any project id) creates exactly one new    *)
(* file, holding the uploaded bytes, under a name that no stored file in   *)
(* either folder has; no other step creates a file; no step replaces a     *)
(* stored file. So the stored names are pairwise distinct and there are as *)
(* many files as accepted uploads, also for equal original filenames.      *)
(***************************************************************************)
UploadOps == { "upload_photo", "upload_resume", "upload_project_image" }

StoredNames == DOMAIN uploads[PROFILE_DIR] \cup DOMAIN uploads[PROJECTS_DIR]

C11_Step ==
    LET folder == IF last'.op = "upload_project_image" THEN PROJECTS_DIR ELSE PROFILE_DIR
        other  == IF last'.op = "upload_project_image" THEN PROFILE_DIR ELSE PROJECTS_DIR
    IN  /\ KeepsFiles(PROFILE_DIR)
        /\ KeepsFiles(PROJECTS_DIR)
        /\ IF last'.op \in UploadOps /\ resp'.status # 400
           THEN /\ Cardinality(NewFiles(folder)) = 1
                /\ NewFiles(other) = {}
                /\ \A n \in NewFiles(folder) :
                       /\ n \notin StoredNames
                       /\ uploads'[folder][n] = last'.file.data
           ELSE /\ NewFiles(PROFILE_DIR) = {}
                /\ NewFiles(PROJECTS_DIR) = {}

C11_OneFreshFilePerUpload == [][C11_Step]_vars

\* the same original filename was uploaded as a photo, as a resume and as a
\* project image: three files under three different names are stored
C11_Witness ==
    /\ last.op \in UploadOps
    /\ last.file.filename = << "c", "v", ".", "P", "d", "f" >>
    /\ \E a, b \in DOMAIN uploads[PROFILE_DIR] :
            /\ a # b
            /\ EndsWith(a, << ".", "P", "d", "f" >>)
            /\ EndsWith(b, << ".", "P", "d", "f" >>)
    /\ \E c \in DOMAIN uploads[PROJECTS_DIR] :
            /\ EndsWith(c, << ".", "P", "d", "f" >>)
            /\ c \notin DOMAIN uploads[PROFILE_DIR]
    /\ Cardinality(StoredNames) = 3

(***************************************************************************)
(* C12  No step removes a stored upload or changes its bytes: the files    *)
(* of both folders only grow, also when a later upload supersedes the      *)
(* photo or resume reference and when the project that references an       *)
(* image is deleted.                                                       *)
(***************************************************************************)
C12_Step ==
    \A folder \in UploadDirs :
        /\ KeepsFiles(folder)
        /\ DOMAIN uploads[folder] \subseteq DOMAIN uploads'[folder]
        /\ Cardinality(DOMAIN uploads'[folder]) >= Cardinality(DOMAIN uploads[folder])

C12_FilesOnlyGrow == [][C12_Step]_vars

\* a project whose image was attached has been deleted after a photo was
\* uploaded: the image that no project names any more and the photo are
\* both still stored
C12_Witness ==
    /\ last.op = "delete_project"
    /\ resp.status = 200
    /\ \E n \in DOMAIN uploads[PROJECTS_DIR] :
         \A items \in { StoredProjects(db[PROJECTS_JSON]) } :
            \A i \in 1..Len(items) :
                items[i].v.imagePath # Str(<< "/uploads/", "projects", "/" >> \o n)
    /\ \E a \in DOMAIN uploads[PROFILE_DIR] :
            ProfileField(db[PROFILE_JSON], "photo_path")
                = Str(<< "/uploads/", "profile", "/" >> \o a)

(***************************************************************************)
(* C18  A save interrupted after the file was truncated leaves the store   *)
(* empty or unparseable; the next load does not raise and returns the      *)
(* load fallback, neither the document stored before nor the one being     *)
(* saved; an add that follows persists a list that holds the new project   *)
(* and none of the projects stored before.                                 *)
(* After a cut that left text in the file the load returns an empty        *)
(* object, and the add that follows ends in an unhandled exception and     *)
(* persists nothing.                                                       *)
(***************************************************************************)
LoadFallbacks == { EmptyList, EmptyDict }

C18_Step ==
    /\ last'.op = "add_project_interrupted" =>
          \A f \in { db'[PROJECTS_JSON] } :
              /\ f.exists
              /\ Len(Strip(f.content)) = 0 \/ Unparseable(f)
              /\ LoadFile(PROJECTS_JSON, f) \in LoadFallbacks
    /\ ( /\ last.op = "add_project_interrupted"
         /\ last'.op = "get_projects" ) =>
              /\ resp'.status = 200
              /\ resp'.body \in LoadFallbacks
    /\ ( /\ last.op = "add_project_interrupted"
         /\ last'.op = "add_project" ) =>
              /\ resp'.status = 200
              /\ StoredProjects(db'[PROJECTS_JSON]) = << resp'.body.project >>

C18_InterruptedSaveThenAdd == [][C18_Step]_vars

(***************************************************************************)
(* C15  Lost update. Two mutating requests on the same document, both of   *)
(* which load before either saves, both report success; the stored         *)
(* document is the one the later save wrote, and the mutation of the       *)
(* earlier save is absent from it.                                         *)
(* The last part fails when the later request makes the same change: two   *)
(* deletes of one project, two updates that set the same field.            *)
(***************************************************************************)
\* w1 saved while w2 had loaded the same document and had not yet saved,
\* and w2 has saved since
Raced(w1, w2) ==
    /\ w1 # w2
    /\ threads[w1].pc = "done"
    /\ threads[w2].pc = "done"
    /\ threads[w1].path = threads[w2].path
    /\ threads[w1].saved
    /\ threads[w2].saved
    /\ w2 \in threads[w1].pending

IdsOf(doc) ==
    IF doc.type = "list" THEN { doc.v[i].v.id : i \in 1..Len(doc.v) } ELSE {}

\* the keys that the save of w gave a value its loaded document did not have
ChangedKeys(w) ==
    { k \in DOMAIN threads[w].wrote.v :
        k \notin DOMAIN threads[w].snap.v \/ threads[w].snap.v[k] # threads[w].wrote.v[k] }

\* nothing of what the save of w1 changed shows in the stored document,
\* apart from the projects in sameIds and the keys in sameKeys
MutationAbsent(w1, sameIds, sameKeys) ==
    \A stored \in { LoadFile(threads[w1].path, db[threads[w1].path]) } :
        IF threads[w1].path = PROJECTS_JSON
        THEN /\ (IdsOf(threads[w1].wrote) \ IdsOf(threads[w1].snap)) \cap IdsOf(stored) = {}
             /\ (IdsOf(threads[w1].snap) \ IdsOf(threads[w1].wrote)) \ sameIds
                    \subseteq IdsOf(stored)
        ELSE \A k \in ChangedKeys(w1) \ sameKeys :
                 k \notin DOMAIN stored.v \/ stored.v[k] # threads[w1].wrote.v[k]

LaterSaveWins(w1, w2) ==
    /\ threads[w1].resp.status = 200
    /\ threads[w2].resp.status = 200
    /\ PyEq(LoadFile(threads[w2].path, db[threads[w2].path]), threads[w2].wrote)

C15_LostUpdate ==
    \A w1, w2 \in Workers :
        Raced(w1, w2) =>
            /\ LaterSaveWins(w1, w2)
            /\ MutationAbsent(w1, {}, {})

(***************************************************************************)
(* C15 as amended: the mutation of the earlier save is absent from the     *)
(* stored document except where the later request makes the same change    *)
(* itself (it deletes the same project, or sets the same field to the      *)
(* same value).                                                            *)
(***************************************************************************)
\* the projects the save of w removed from the document it loaded
RemovedIds(w) == IdsOf(threads[w].snap) \ IdsOf(threads[w].wrote)

\* the keys the save of w set to the value the save of w1 gave them
SameKeys(w1, w) ==
    { k \in ChangedKeys(w1) \cap ChangedKeys(w) :
        threads[w].wrote.v[k] = threads[w1].wrote.v[k] }

C15_LostUpdateOfDifferentChanges ==
    \A w1, w2 \in Workers :
        Raced(w1, w2) =>
            /\ LaterSaveWins(w1, w2)
            /\ IF threads[w1].path = PROJECTS_JSON
               THEN MutationAbsent(w1, RemovedIds(w2), {})
               ELSE MutationAbsent(w1, {}, SameKeys(w1, w2))

\* worker 1 deleted project 1 and worker 2, which had loaded both projects
\* before that, then deleted project 2: project 1 is stored again
C15_Witness ==
    /\ Raced(1, 2)
    /\ threads[1].op = "delete_project"
    /\ threads[1].arg = S("1")
    /\ threads[2].op = "delete_project"
    /\ threads[2].arg = S("2")
    /\ threads[1].resp.status = 200
    /\ threads[2].resp.status = 200
    /\ IdSeq(StoredProjects(db[PROJECTS_JSON])) = << S("1") >>

====
